---- MODULE Spec2Model ----
(***************************************************************************)
(* Glyph atlas construction of try-wgpu (src/src/text/mod.rs), the font    *)
(* registry that keeps the atlases (TextMap), the normalization of glyph   *)
(* rects and the screen text mesh built from an atlas                      *)
(* (src/src/text/mesh.rs).                                                 *)
(*                                                                         *)
(* Machine words.  The code computes in i32, u32 and usize.  A word is     *)
(* held by its two's-complement representative: an integer n >= 0 stands   *)
(* for the word n, an integer n < 0 stands for the unsigned word 2^N + n   *)
(* (N = 32 for u32, 64 for usize), which is larger than every size the     *)
(* model reaches.  Casts between i32, u32 and usize of the values that     *)
(* occur keep the representative (sign extension and truncation), wrapping *)
(* +, -, * are +, -, * on representatives, and the operators below say     *)
(* when the unsigned operation leaves the range of the word.               *)
(***************************************************************************)
EXTENDS Integers, Sequences, FiniteSets, TLC

VARIABLES
    overflow_checks, \* the build profile: TRUE = arithmetic overflow panics (debug)
    pc,              \* position of the font build
    panic,           \* the expression that panicked, "" while none did
    face,            \* what the rasterizer returns for this face
    linear,          \* the LinearTextAtlas
    atlas,           \* the TextAtlas
    src,             \* the string given to create_screen_text_mesh
    coord,           \* the anchor given to create_screen_text_mesh
    mesh,            \* the Mesh<Vertex> it returned
    fonts,           \* TextMap.fonts: font name -> FontContainer
    last,            \* the last call of TextMap::generate_from_path and its outcome
    glyph_rect,      \* the GlyphRect given to GlyphRect::normalized
    hw,              \* the (h, w) given to GlyphRect::normalized
    uv,              \* the corners GlyphRect::normalized returned
    input,           \* an Input<MouseButton>: pressed, just_pressed, just_released
    in_call,         \* the last call on the Input and the Input before it
    events,          \* Events<MouseButtonInput>: the events sent so far
    reader,          \* the EventReader of mouse_button_input_system: events read
    frame,           \* the events the last run of the system read
    pool,            \* the AssetServer: handles, tasks, executor threads, channel
    win,             \* the window resources of the app world
    batch            \* a BatchMesh and the meshes added to it

vars == <<overflow_checks, pc, panic, face, linear, atlas, src, coord, mesh,
          fonts, last, glyph_rect, hw, uv, input, in_call, events, reader,
          frame, pool, win, batch>>

\* The state of the text subsystem.
text_state == <<overflow_checks, pc, panic, face, linear, atlas, src, coord,
                mesh, fonts, last, glyph_rect, hw, uv>>

\* The state of the input subsystem.
input_state == <<input, in_call, events, reader, frame>>

\* What a font build and the mesh of its atlas leave alone.
outside_build == <<fonts, last, glyph_rect, hw, uv, input_state, pool, win, batch>>

\* What the calls of TextMap leave alone.
outside_map ==
    <<overflow_checks, face, linear, atlas, src, coord, mesh, glyph_rect, hw, uv,
      input_state, pool, win, batch>>

\* What a call of GlyphRect::normalized leaves alone.
outside_normalized ==
    <<overflow_checks, panic, face, linear, atlas, src, coord, mesh, fonts, last,
      input_state, pool, win, batch>>

\* What the calls on an Input leave alone.
outside_input == <<text_state, events, reader, frame, pool, win, batch>>

\* What the mouse button events and their system leave alone.
outside_mouse == <<text_state, in_call, pool, win, batch>>

\* What the asset server leaves alone.
outside_pool == <<text_state, input_state, win, batch>>

\* What the window plugin and the event loop leave alone.
outside_window == <<text_state, input_state, pool, batch>>

\* What a BatchMesh leaves alone.
outside_batch == <<overflow_checks, face, linear, atlas, src, coord, mesh, fonts,
                   last, glyph_rect, hw, uv, input_state, pool, win>>

\* Number of character codes of a face (128 in the source).
COUNT == 3

\* Longest string handed to create_screen_text_mesh.
MaxStrLen == 2

----------------------------------------------------------------------------
\* Unsigned words by representative.

\* The word is 2^N + n: it exceeds every length and size of the model.
Wrapped(n) == n < 0

\* a < b as unsigned words.
ULess(a, b) == IF Wrapped(a) = Wrapped(b) THEN a < b ELSE Wrapped(b)

\* a + b leaves the unsigned range.
AddOverflows(a, b) ==
    IF Wrapped(a) /\ Wrapped(b) THEN TRUE
    ELSE IF Wrapped(a) \/ Wrapped(b) THEN a + b >= 0
    ELSE FALSE

\* a - b leaves the unsigned range.
SubOverflows(a, b) == ULess(a, b)

\* a * b leaves the unsigned range.
MulOverflows(a, b) ==
    IF Wrapped(a) /\ Wrapped(b) THEN TRUE
    ELSE IF Wrapped(a) THEN b >= 2
    ELSE IF Wrapped(b) THEN a >= 2
    ELSE FALSE

\* bytes[lo..hi] of a Vec of length len panics.
SliceFails(lo, hi, len) == ULess(hi, lo) \/ ULess(len, hi)

Max(a, b) == IF a >= b THEN a ELSE b

Abs(a) == IF a >= 0 THEN a ELSE 0 - a

----------------------------------------------------------------------------
\* The rasterizer (freetype), as LinearTextAtlas::create reads it.

PixelModes == {"None", "Mono", "Gray", "Gray2", "Gray4", "Lcd", "LcdV", "Bgra"}

\* PixelBitSize::get_size: bits per pixel of a pixel mode.
get_size(mode) ==
    CASE mode = "None"  -> 0
      [] mode = "Mono"  -> 1
      [] mode = "Gray"  -> 8
      [] mode = "Gray2" -> 2
      [] mode = "Gray4" -> 4
      [] mode = "Lcd"   -> 8
      [] mode = "LcdV"  -> 8
      [] mode = "Bgra"  -> 32

\* Glyph shapes the rasterizer is asked for: rows, width, padding pixels per
\* row, whether the bitmap is stored bottom-up (negative pitch), bearings and
\* advance (1/64 pixel).  An empty bitmap has no rows, no width and no pitch.
ShapeA == [h |-> 10, w |-> 8, pad |-> 0, flip |-> FALSE,
           bearing_x |-> 0, bearing_y |-> 8, advance |-> 608]

ShapeB == [h |-> 6, w |-> 6, pad |-> 0, flip |-> FALSE,
           bearing_x |-> 1, bearing_y |-> 6, advance |-> 448]

ShapeSpace == [h |-> 0, w |-> 0, pad |-> 0, flip |-> FALSE,
               bearing_x |-> 0, bearing_y |-> 0, advance |-> 300]

ShapePadded == [h |-> 2, w |-> 1, pad |-> 1, flip |-> FALSE,
                bearing_x |-> 0, bearing_y |-> 1, advance |-> 128]

ShapeLow == [h |-> 1, w |-> 1, pad |-> 0, flip |-> FALSE,
             bearing_x |-> 0, bearing_y |-> -1, advance |-> 100]

ShapeHigh == [h |-> 1, w |-> 1, pad |-> 0, flip |-> FALSE,
              bearing_x |-> -1, bearing_y |-> 2, advance |-> 64]

ShapeFlipped == [h |-> 1, w |-> 1, pad |-> 0, flip |-> TRUE,
                 bearing_x |-> 0, bearing_y |-> 1, advance |-> 64]

Shapes == {ShapeA, ShapeB, ShapeSpace, ShapePadded, ShapeLow, ShapeHigh, ShapeFlipped}

\* Bytes of one bitmap row of w pixels in a pixel mode.
RowBytes(mode, w) ==
    IF get_size(mode) = 0 THEN w ELSE (w * get_size(mode) + 7) \div 8

\* What face.glyph() holds after load_char(ch, RENDER) for a shape.
Glyph(shape, mode) ==
    [h         |-> shape.h,
     w         |-> shape.w,
     pitch     |-> (IF shape.flip THEN -1 ELSE 1) * RowBytes(mode, shape.w + shape.pad),
     bearing_x |-> shape.bearing_x,
     bearing_y |-> shape.bearing_y,
     advance   |-> shape.advance]

Glyphs(mode) == {Glyph(sh, mode) : sh \in Shapes}

\* The faces a font file can hold: one pixel mode, one glyph per character code.
Faces ==
    UNION {[pixel_mode : {mode}, glyphs : [1..COUNT -> Glyphs(mode)]] : mode \in PixelModes}

GrayFaces == {f \in Faces : f.pixel_mode = "Gray"}

NoFace == [pixel_mode |-> "None", glyphs |-> <<>>]

\* What load_char(ch, RENDER) returns for a character it cannot render.
Unrenderable == [err |-> "load_char"]

\* What new_face returns for a path without a font file, or for a face
\* index the file does not have.
Missing == [err |-> "new_face"]

\* Byte i (from 1) of the bitmap rendered for character code ch: never 0 and
\* different for neighbouring bytes and character codes, so that a misplaced
\* byte of the atlas shows.
Pixel(ch, i) == 1 + ((ch * 37 + i) % 255)

\* bitmap.buffer(): rows * |pitch| bytes.
Buffer(ch, g) == [i \in 1..(g.h * Abs(g.pitch)) |-> Pixel(ch, i)]

----------------------------------------------------------------------------
\* LinearTextAtlas

NoLinear ==
    [ok |-> FALSE, panic |-> "", sum_pitch |-> 0, max_y_max |-> 0, max_y_min |-> 0,
     pixel_mode |-> "None", descriptors |-> <<>>, bytes |-> <<>>, stride |-> 0]

\* max_y_max = max_y_max.max(desc.bearing_y)
MaxAscent(m, desc) == Max(m, desc.bearing_y)

\* Mutant of MaxDescent: the descent is taken for the whole height.
MaxDescent_Height(m, desc) == Max(m, desc.h)

\* max_y_min = max_y_min.max(desc.h - desc.bearing_y)
MaxDescent(m, desc) == Max(m, desc.h - desc.bearing_y)

\* Mutant of StrideAfter: the offset advances by the visible pixels.
StrideAfter_ByWidth(stride, desc) == stride + desc.h * desc.w

\* stride += (desc.h * desc.pitch) as usize
StrideAfter(stride, desc) == stride + desc.h * desc.pitch

\* One iteration of the loop over the character codes (text/mod.rs 97-125);
\* acc holds the locals of LinearTextAtlas::create.
LinearIter(acc, ch, g, mode, checks) ==
    LET desc == [x_start   |-> acc.stride,
                 h         |-> g.h,
                 w         |-> g.w,
                 pitch     |-> g.pitch,
                 bearing_x |-> g.bearing_x,
                 bearing_y |-> g.bearing_y,
                 advance   |-> g.advance]
        size == desc.h * desc.pitch
        next == [acc EXCEPT
                   !.bytes       = acc.bytes \o Buffer(ch, g),
                   !.pixel_mode  = mode,
                   !.sum_pitch   = acc.sum_pitch + desc.pitch,
                   !.max_y_max   = MaxAscent(acc.max_y_max, desc),
                   !.max_y_min   = MaxDescent(acc.max_y_min, desc),
                   !.stride      = StrideAfter(acc.stride, desc),
                   !.descriptors = Append(acc.descriptors, desc)]
    IN  IF "err" \in DOMAIN g
        THEN [acc EXCEPT !.ok = FALSE, !.panic = "load_char(ch, RENDER).unwrap()"]
        ELSE IF checks /\ AddOverflows(acc.stride, size)
        THEN [acc EXCEPT !.ok = FALSE, !.panic = "stride += (h * pitch) as usize"]
        ELSE next

RECURSIVE LinearLoop(_, _, _, _)
LinearLoop(acc, ch, f, checks) ==
    IF ch >= COUNT \/ ~acc.ok THEN acc
    ELSE LinearLoop(LinearIter(acc, ch, f.glyphs[ch + 1], f.pixel_mode, checks),
                    ch + 1, f, checks)

\* LinearTextAtlas::create(face)
LinearCreate(f, checks) ==
    LinearLoop([NoLinear EXCEPT !.ok = TRUE], 0, f, checks)

\* LinearTextAtlas::get_glyph_texture(ch): the descriptor and the slice
\* bytes[x_start .. x_start + h * pitch], or the panic of the slice.
get_glyph_texture(lin, ch, checks) ==
    LET desc   == lin.descriptors[ch + 1]
        stride == desc.x_start
        size   == desc.h * desc.pitch
        end    == stride + size
    IN  IF checks /\ AddOverflows(stride, size)
        THEN [ok |-> FALSE, desc |-> desc, texture |-> <<>>]
        ELSE IF SliceFails(stride, end, Len(lin.bytes))
        THEN [ok |-> FALSE, desc |-> desc, texture |-> <<>>]
        ELSE [ok |-> TRUE, desc |-> desc,
              texture |-> SubSeq(lin.bytes, stride + 1, end)]

----------------------------------------------------------------------------
\* TextAtlas

NoAtlas ==
    [ok |-> FALSE, panic |-> "", descriptors |-> <<>>, rects |-> <<>>,
     w |-> 0, h |-> 0, stride |-> 0, bytes |-> <<>>, x_start |-> 0]

\* GlyphRect::new
GlyphRect(tl, br) == [tl |-> tl, br |-> br]

\* Mutant of RowOffset: every row is copied one row lower.
RowOffset_NextRow(row, fit_w, x_start) == (row + 1) * fit_w + x_start

\* Mutant of RowOffset: every glyph is copied to the left edge.
RowOffset_NoColumn(row, fit_w, x_start) == row * fit_w

\* offset = (tl.1 as usize + i) * fit_w + x_start
RowOffset(row, fit_w, x_start) == row * fit_w + x_start

\* Mutant of RectTopLeft: the row is counted from the top by the bearing alone.
RectTopLeft_NoBaseline(x_start, zero, desc) == <<x_start, Abs(desc.bearing_y)>>

\* tl = (x_start as u32, zero as u32 - desc.bearing_y as u32)
RectTopLeft(x_start, zero, desc) == <<x_start, zero - desc.bearing_y>>

\* br = (tl.0 + desc.w as u32 - 1, tl.1 + desc.h as u32 - 1)
RectBottomRight(tl, desc) == <<tl[1] + desc.w - 1, tl[2] + desc.h - 1>>

\* Mutant of Advance: every glyph takes at least one column.
Advance_AtLeastOne(x_start, desc) == x_start + Max(desc.pitch, 1)

\* Mutant of Advance: the running offset advances by the width.
Advance_ByWidth(x_start, desc) == x_start + desc.w

\* x_start += desc.pitch as usize
Advance(x_start, desc) == x_start + desc.pitch

\* Mutant of FitH: one row more, for the baseline itself.
FitH_BaselineRow(lin) == lin.max_y_max + lin.max_y_min + 1

\* fit_h = max_y_max + max_y_min
FitH(lin) == lin.max_y_max + lin.max_y_min

\* The body of the loop over the rows of one glyph (text/mod.rs 189-202):
\* row i of the texture is copied to bytes[offset .. offset + pitch].
RECURSIVE CopyRows(_, _, _, _, _, _, _, _)
CopyRows(acc, i, desc, texture, tl_y, fit_w, x_start, checks) ==
    IF i >= desc.h \/ ~acc.ok THEN acc
    ELSE
      LET row              == tl_y + i
          offset_factor_2d == row * fit_w
          offset           == RowOffset(row, fit_w, x_start)
          dst_end          == offset + desc.pitch
          src_lo           == desc.pitch * i
          src_hi           == desc.pitch * (i + 1)
          overflow         == \/ MulOverflows(row, fit_w)
                              \/ AddOverflows(offset_factor_2d, x_start)
                              \/ AddOverflows(offset, desc.pitch)
                              \/ MulOverflows(desc.pitch, i)
                              \/ MulOverflows(desc.pitch, i + 1)
      IN  IF checks /\ overflow
          THEN [acc EXCEPT !.ok = FALSE, !.panic = "row offset overflow"]
          ELSE IF SliceFails(offset, dst_end, Len(acc.bytes))
          THEN [acc EXCEPT !.ok = FALSE, !.panic = "bytes[offset..offset + pitch]"]
          ELSE IF SliceFails(src_lo, src_hi, Len(texture))
          THEN [acc EXCEPT !.ok = FALSE, !.panic = "texture[pitch * i..pitch * (i + 1)]"]
          ELSE CopyRows(
                 [acc EXCEPT !.bytes =
                    SubSeq(acc.bytes, 1, offset)
                      \o SubSeq(texture, src_lo + 1, src_hi)
                      \o SubSeq(acc.bytes, dst_end + 1, Len(acc.bytes))],
                 i + 1, desc, texture, tl_y, fit_w, x_start, checks)

\* One iteration of the loop over the character codes (text/mod.rs 172-207).
AtlasIter(acc, ch, lin, fit_w, zero, checks) ==
    LET got     == get_glyph_texture(lin, ch, checks)
        desc    == got.desc
        x_start == acc.x_start
        tl      == RectTopLeft(x_start, zero, desc)
        br      == RectBottomRight(tl, desc)
        copied  == CopyRows(acc, 0, desc, got.texture, tl[2], fit_w, x_start, checks)
    IN  IF ~got.ok
        THEN [acc EXCEPT !.ok = FALSE, !.panic = "get_glyph_texture"]
        ELSE IF checks /\ SubOverflows(zero, desc.bearing_y)
        THEN [acc EXCEPT !.ok = FALSE, !.panic = "zero as u32 - bearing_y as u32"]
        ELSE IF checks /\ (AddOverflows(tl[1], desc.w) \/ SubOverflows(tl[1] + desc.w, 1))
        THEN [acc EXCEPT !.ok = FALSE, !.panic = "tl.0 + w as u32 - 1"]
        ELSE IF checks /\ (AddOverflows(tl[2], desc.h) \/ SubOverflows(tl[2] + desc.h, 1))
        THEN [acc EXCEPT !.ok = FALSE, !.panic = "tl.1 + h as u32 - 1"]
        ELSE IF ~copied.ok
        THEN copied
        ELSE IF checks /\ AddOverflows(x_start, desc.pitch)
        THEN [acc EXCEPT !.ok = FALSE, !.panic = "x_start += pitch as usize"]
        ELSE [copied EXCEPT
                !.rects   = Append(acc.rects, GlyphRect(tl, br)),
                !.x_start = Advance(x_start, desc)]

RECURSIVE AtlasLoop(_, _, _, _, _, _)
AtlasLoop(acc, ch, lin, fit_w, zero, checks) ==
    IF ch >= COUNT \/ ~acc.ok THEN acc
    ELSE AtlasLoop(AtlasIter(acc, ch, lin, fit_w, zero, checks),
                   ch + 1, lin, fit_w, zero, checks)

\* The atlas width in texels (text/mod.rs 213): fit_w / (get_size() / 8).
\* fit_w is not a wrapped word here: a negative sum of pitches needs a glyph
\* with rows, so fit_h >= 1 and the allocation of fit_h * fit_w bytes fails.
TexelWidth(fit_w, mode) == fit_w \div (get_size(mode) \div 8)

\* TextAtlas::create(linear_atlas)
AtlasCreate(lin, checks) ==
    LET fit_w  == lin.sum_pitch
        fit_h  == FitH(lin)
        zero   == lin.max_y_max
        size   == fit_h * fit_w
        start  == [NoAtlas EXCEPT
                     !.ok          = TRUE,
                     !.descriptors = lin.descriptors,
                     !.bytes       = [k \in 1..size |-> 0]]
        packed == AtlasLoop(start, 0, lin, fit_w, zero, checks)
    IN  IF checks /\ MulOverflows(fit_h, fit_w)
        THEN [NoAtlas EXCEPT !.panic = "fit_h * fit_w"]
        ELSE IF Wrapped(size)
        THEN [NoAtlas EXCEPT !.panic = "vec![0; fit_h * fit_w]"]
        ELSE IF ~packed.ok
        THEN [NoAtlas EXCEPT !.panic = packed.panic]
        ELSE IF get_size(lin.pixel_mode) \div 8 = 0
        THEN [NoAtlas EXCEPT !.panic = "fit_w / (get_size() / 8)"]
        ELSE [packed EXCEPT
                !.h      = fit_h,
                !.w      = TexelWidth(fit_w, lin.pixel_mode),
                !.stride = fit_w]

----------------------------------------------------------------------------
\* The screen text mesh (text/mesh.rs)

\* An f32 quotient a / b, kept as the pair of its operands.
Quot(a, b) == <<a, b>>

\* Mutant of normalized: x divided by the height, y by the width.
normalized_Swapped(rect, h, w) ==
    <<<<Quot(rect.tl[1], h), Quot(rect.tl[2], w)>>,
      <<Quot(rect.br[1], h), Quot(rect.br[2], w)>>>>

\* GlyphRect::normalized(h, w)
normalized(rect, h, w) ==
    <<<<Quot(rect.tl[1], w), Quot(rect.tl[2], h)>>,
      <<Quot(rect.br[1], w), Quot(rect.br[2], h)>>>>

Vertex(position, tex_coords) == [position |-> position, tex_coords |-> tex_coords]

\* Mutant of Quad: the four corners, as for an indexed quad.
Quad_Corners(x_start, y_start, w, h, tl, br) ==
    <<Vertex(<<x_start,     y_start + h, 0>>, <<tl[1], tl[2]>>),
      Vertex(<<x_start,     y_start,     0>>, <<tl[1], br[2]>>),
      Vertex(<<x_start + w, y_start,     0>>, <<br[1], br[2]>>),
      Vertex(<<x_start + w, y_start + h, 0>>, <<br[1], tl[2]>>)>>

\* Mutant of Quad: the two triangles wound the other way round.
Quad_Clockwise(x_start, y_start, w, h, tl, br) ==
    <<Vertex(<<x_start,     y_start + h, 0>>, <<tl[1], tl[2]>>),
      Vertex(<<x_start + w, y_start + h, 0>>, <<br[1], tl[2]>>),
      Vertex(<<x_start + w, y_start,     0>>, <<br[1], br[2]>>),
      Vertex(<<x_start + w, y_start,     0>>, <<br[1], br[2]>>),
      Vertex(<<x_start,     y_start,     0>>, <<tl[1], br[2]>>),
      Vertex(<<x_start,     y_start + h, 0>>, <<tl[1], tl[2]>>)>>

\* The six vertices pushed for one character (text/mesh.rs 19-44).
Quad(x_start, y_start, w, h, tl, br) ==
    <<Vertex(<<x_start,     y_start + h, 0>>, <<tl[1], tl[2]>>),
      Vertex(<<x_start,     y_start,     0>>, <<tl[1], br[2]>>),
      Vertex(<<x_start + w, y_start,     0>>, <<br[1], br[2]>>),
      Vertex(<<x_start + w, y_start,     0>>, <<br[1], br[2]>>),
      Vertex(<<x_start + w, y_start + h, 0>>, <<br[1], tl[2]>>),
      Vertex(<<x_start,     y_start + h, 0>>, <<tl[1], tl[2]>>)>>

NoMesh ==
    [ok |-> FALSE, panic |-> "", primitive_topology |-> "TriangleList",
     vertices |-> <<>>, indices |-> "None", x |-> 0]

\* Mutant of QuadOrigin: the quad starts at the pen, without the bearing.
QuadOrigin_NoBearing(x, y, desc) == <<x, y - (desc.h - desc.bearing_y)>>

\* x_start and y_start of a character's quad for the pen at (x, y)
\* (text/mesh.rs 14-16).  The f32 sums are exact: pen, anchor and metrics
\* are integers far below 2^24.
QuadOrigin(x, y, desc) == <<x + desc.bearing_x, y - (desc.h - desc.bearing_y)>>

\* Mutant of PenAfter: the pen moves by the bitmap width.
PenAfter_ByWidth(x, desc) == x + desc.w

\* x += (desc.advance >> 6) as f32: an arithmetic shift, that is the floor
\* of advance / 64.
PenAfter(x, desc) == x + (desc.advance \div 64)

\* Mutant of MeshIter: a character code without a glyph is taken modulo
\* the number of glyphs instead of failing the index.
MeshIter_Wrapping(acc, ch, at, y) ==
    LET g      == (ch % Len(at.descriptors)) + 1
        desc   == at.descriptors[g]
        n      == normalized(at.rects[g], at.h, at.w)
        origin == QuadOrigin(acc.x, y, desc)
    IN  [acc EXCEPT
           !.vertices = acc.vertices \o Quad(origin[1], origin[2], desc.w, desc.h, n[1], n[2]),
           !.x        = PenAfter(acc.x, desc)]

\* One iteration of the loop over the characters (text/mesh.rs 10-47);
\* acc.x is the pen.
MeshIter(acc, ch, at, y) ==
    IF ch >= Len(at.descriptors)
    THEN [acc EXCEPT !.ok = FALSE, !.panic = "descriptors[ch as usize]"]
    ELSE
      LET desc   == at.descriptors[ch + 1]
          n      == normalized(at.rects[ch + 1], at.h, at.w)
          origin == QuadOrigin(acc.x, y, desc)
      IN  [acc EXCEPT
             !.vertices = acc.vertices \o Quad(origin[1], origin[2], desc.w, desc.h, n[1], n[2]),
             !.x        = PenAfter(acc.x, desc)]

RECURSIVE MeshLoop(_, _, _, _, _)
MeshLoop(acc, k, at, s, y) ==
    IF k > Len(s) \/ ~acc.ok THEN acc
    ELSE MeshLoop(MeshIter(acc, s[k], at, y), k + 1, at, s, y)

\* create_screen_text_mesh(atlas, src, coord)
create_screen_text_mesh(at, s, c) ==
    LET built == MeshLoop([NoMesh EXCEPT !.ok = TRUE, !.x = c[1]], 1, at, s, c[2])
    IN  IF built.ok THEN built ELSE [NoMesh EXCEPT !.panic = built.panic]

\* Strings of at most MaxStrLen characters; code COUNT is the first one
\* that has no glyph.
Chars == 0..COUNT

Strings == UNION {[1..n -> Chars] : n \in 0..MaxStrLen}

Anchors == {<<0, 0>>, <<3, 20>>}

----------------------------------------------------------------------------
\* f32 values, for the quotients of GlyphRect::normalized.  A finite value
\* is m * 2^e with m odd (or 0); the significand holds 24 bits and results
\* are rounded to the nearest value, ties to the even significand.

F32Of(class, m, e) == [class |-> class, m |-> m, e |-> e]

F32NaN == F32Of("nan", 0, 0)

F32Infinity == F32Of("inf", 0, 0)

\* m * 2^e with m below 2^24, brought to an odd m.
RECURSIVE F32Exact(_, _)
F32Exact(m, e) ==
    IF m = 0 THEN F32Of("finite", 0, 0)
    ELSE IF m % 2 = 0 THEN F32Exact(m \div 2, e + 1)
    ELSE F32Of("finite", m, e)

\* The f32 nearest to m * 2^e (+ a rest below the last bit of m when sticky).
RECURSIVE F32Round(_, _, _)
F32Round(m, e, sticky) ==
    IF m < 2^24 THEN F32Exact(m, e)
    ELSE IF m < 2^25
    THEN LET keep == m \div 2
             up   == (m % 2 = 1) /\ (sticky \/ keep % 2 = 1)
         IN  F32Exact(IF up THEN keep + 1 ELSE keep, e + 1)
    ELSE F32Round(m \div 2, e + 1, sticky \/ m % 2 = 1)

\* `n as f32` of a u32 word.  A wrapped word is 2^32 - k with 0 < k < 2^31,
\* where neighbouring f32 values are 256 apart.
AsF32(n) ==
    IF ~Wrapped(n) THEN F32Round(n, 0, FALSE)
    ELSE LET k    == 0 - n
             kq   == k \div 256
             kr   == k % 256
             down == kr > 128 \/ (kr = 128 /\ kq % 2 = 1)
         IN  F32Exact(2^24 - (IF down THEN kq + 1 ELSE kq), 8)

\* Long division q.r of two significands, until q holds 25 bits or the
\* division is exact; s counts the binary places.
RECURSIVE DivBits(_, _, _, _)
DivBits(q, r, d, s) ==
    IF q >= 2^24 \/ r = 0 THEN [q |-> q, r |-> r, s |-> s]
    ELSE DivBits(2 * q + ((2 * r) \div d), (2 * r) % d, d, s + 1)

\* x / y of two finite f32 values.
F32Div(x, y) ==
    IF y.m = 0 THEN (IF x.m = 0 THEN F32NaN ELSE F32Infinity)
    ELSE LET d == DivBits(x.m \div y.m, x.m % y.m, y.m, 0)
         IN  F32Round(d.q, x.e - y.e - d.s, d.r # 0)

\* The f32 value of the quotient `a as f32 / b as f32`.
F32Quot(q) == F32Div(AsF32(q[1]), AsF32(q[2]))

\* Inputs of GlyphRect::normalized: coordinates up to wrapped words and
\* words that f32 cannot hold exactly, dimensions from 0.
Coords == {0, 7, 13, 31, 2^24 + 1, -1}

Rects == {GlyphRect(<<a, b>>, <<c, d>>) : a \in Coords, b \in Coords, c \in Coords, d \in Coords}

Dims == {0, 1, 3, 7, 10, 11, 100}

----------------------------------------------------------------------------
\* FontContainer and TextMap (text/mod.rs 221-271)

NoContainer == [face |-> NoFace, linear_atlas |-> NoLinear, atlas |-> NoAtlas]

\* FontContainer::new for what new_face finds at the path: the container,
\* or the panic of an unwrap or of TextAtlas::create; loaded is the number
\* of characters LinearTextAtlas::create has loaded by then.
FontContainerNew(file, checks) ==
    IF "err" \in DOMAIN file
    THEN [ok |-> FALSE, panic |-> "new_face(font_path, face_index).unwrap()",
          loaded |-> 0, container |-> NoContainer]
    ELSE
      LET lin == LinearCreate(file, checks)
          at  == AtlasCreate(lin, checks)
      IN  IF ~lin.ok
          THEN [ok |-> FALSE, panic |-> lin.panic,
                loaded |-> Len(lin.descriptors), container |-> NoContainer]
          ELSE IF ~at.ok
          THEN [ok |-> FALSE, panic |-> at.panic,
                loaded |-> COUNT, container |-> NoContainer]
          ELSE [ok |-> TRUE, panic |-> "", loaded |-> COUNT,
                container |-> [face |-> file, linear_atlas |-> lin, atlas |-> at]]

\* TextMap::new: fonts is Default::default(), the empty map.
NoFonts == <<>>

NoCall ==
    [op |-> "", font |-> "", path |-> <<>>, face_index |-> 0,
     ok |-> FALSE, loaded |-> 0, replaced |-> FALSE]

\* Mutant of Insert: the map holds the new entry only.
Insert_Only(map, key, value) == [n \in {key} |-> value]

\* HashMap::insert: the value of an existing key is replaced.
Insert(map, key, value) ==
    [n \in DOMAIN map \cup {key} |-> IF n = key THEN value ELSE map[n]]

\* Mutant of Registered: the container is inserted whatever the outcome.
Registered_Always(map, font, r) == Insert(map, font, r.container)

\* self.fonts after self.fonts.insert(font, FontContainer::new(...)?): the
\* argument is evaluated first, and its panic leaves the map alone.
Registered(map, font, r) == IF r.ok THEN Insert(map, font, r.container) ELSE map

FONTS_DIR == "C:/Windows/Fonts"

\* format!("{}/{}", FONTS_DIR, &font), as its two parts.
FontPath(font) == <<FONTS_DIR, font>>

FontNames == {"arial.ttf", "broken.ttf", "missing.ttf"}

Paths == {FontPath(font) : font \in FontNames} \cup {<<"assets", "pixel.ttf">>}

FaceIndexes == {0, 1}

\* A gray face: its first glyph, its second glyph, and the glyph of every
\* further character code.
GrayFaceOf(first, second, rest) ==
    [pixel_mode |-> "Gray",
     glyphs |-> [g \in 1..COUNT |->
                   Glyph(IF g = 1 THEN first ELSE IF g = 2 THEN second ELSE rest, "Gray")]]

\* The font files of the machine: what new_face finds at a path for a face
\* index.  arial.ttf holds two faces, broken.ttf a face whose second
\* character does not render and a face with a bottom-up bitmap, pixel.ttf
\* one face; missing.ttf is not there.
FontFile(path, face_index) ==
    CASE path = FontPath("arial.ttf") /\ face_index = 0 ->
           GrayFaceOf(ShapeA, ShapeB, ShapeSpace)
      [] path = FontPath("arial.ttf") /\ face_index = 1 ->
           GrayFaceOf(ShapeB, ShapePadded, ShapeA)
      [] path = FontPath("broken.ttf") /\ face_index = 0 ->
           [GrayFaceOf(ShapeA, ShapeB, ShapeB) EXCEPT !.glyphs[2] = Unrenderable]
      [] path = FontPath("broken.ttf") /\ face_index = 1 ->
           GrayFaceOf(ShapeA, ShapeFlipped, ShapeSpace)
      [] path = <<"assets", "pixel.ttf">> /\ face_index = 0 ->
           GrayFaceOf(ShapeHigh, ShapeLow, ShapePadded)
      [] OTHER -> Missing

----------------------------------------------------------------------------
\* The other subsystems before any of their code ran.

\* Input::default(): three empty sets.
InputDefault == [pressed |-> {}, just_pressed |-> {}, just_released |-> {}]

\* No AssetServer was created.
NoServer == [created |-> FALSE]

\* An App with no plugin built.
NoApp == [built |-> FALSE]

\* No BatchMesh was created.
NoBatch == [created |-> FALSE]

----------------------------------------------------------------------------
\* The state machine: FontContainer::new run step by step, then
\* create_screen_text_mesh on the atlas it built.

Init ==
    /\ overflow_checks \in BOOLEAN
    /\ pc = "start"
    /\ panic = ""
    /\ face = NoFace
    /\ linear = NoLinear
    /\ atlas = NoAtlas
    /\ src = <<>>
    /\ coord = <<0, 0>>
    /\ mesh = NoMesh
    /\ fonts = NoFonts
    /\ last = NoCall
    /\ glyph_rect = GlyphRect(<<0, 0>>, <<0, 0>>)
    /\ hw = <<0, 0>>
    /\ uv = <<>>
    /\ input = InputDefault
    /\ in_call = [op |-> "none", x |-> "none", before |-> InputDefault]
    /\ events = <<>>
    /\ reader = 0
    /\ frame = <<>>
    /\ pool = NoServer
    /\ win = NoApp
    /\ batch = NoBatch

\* library.new_face(font_path, face_index), for a font file holding one of
\* the faces fs.
NewFaceOf(fs) ==
    /\ pc = "start"
    /\ \E f \in fs : face' = f
    /\ pc' = "face"
    /\ UNCHANGED <<overflow_checks, panic, linear, atlas, src, coord, mesh>>
    /\ UNCHANGED outside_build

NewFace == NewFaceOf(Faces)

\* The same for the fonts the mesh is built for: outline fonts, which
\* load_char(ch, RENDER) renders as 8-bit gray bitmaps.
NewGrayFace == NewFaceOf(GrayFaces)

\* LinearTextAtlas::create(&face).unwrap()
LinearTextAtlasCreate ==
    /\ pc = "face"
    /\ LET lin == LinearCreate(face, overflow_checks)
       IN  /\ linear' = (IF lin.ok THEN lin ELSE NoLinear)
           /\ pc' = (IF lin.ok THEN "linear" ELSE "panicked")
           /\ panic' = lin.panic
    /\ UNCHANGED <<overflow_checks, face, atlas, src, coord, mesh>>
    /\ UNCHANGED outside_build

\* TextAtlas::create(&linear_atlas)
TextAtlasCreate ==
    /\ pc = "linear"
    /\ LET at == AtlasCreate(linear, overflow_checks)
       IN  /\ atlas' = at
           /\ pc' = (IF at.ok THEN "atlas" ELSE "panicked")
           /\ panic' = at.panic
    /\ UNCHANGED <<overflow_checks, face, linear, src, coord, mesh>>
    /\ UNCHANGED outside_build

\* create_screen_text_mesh(&atlas, src, coord)
ScreenTextMesh ==
    /\ pc = "atlas"
    /\ \E s \in Strings, c \in Anchors :
         LET m == create_screen_text_mesh(atlas, s, c)
         IN  /\ src' = s
             /\ coord' = c
             /\ mesh' = m
             /\ pc' = (IF m.ok THEN "mesh" ELSE "panicked")
             /\ panic' = m.panic
    /\ UNCHANGED <<overflow_checks, face, linear, atlas>>
    /\ UNCHANGED outside_build

\* Building a font of any pixel mode.
Next ==
    \/ NewFace
    \/ LinearTextAtlasCreate
    \/ TextAtlasCreate

Spec == Init /\ [][Next]_vars

\* Building a gray font and a text mesh from its atlas.
NextMesh ==
    \/ NewGrayFace
    \/ LinearTextAtlasCreate
    \/ TextAtlasCreate
    \/ ScreenTextMesh

SpecMesh == Init /\ [][NextMesh]_vars

\* rect.normalized(h, w) for any rect and dimensions.
Normalize ==
    /\ pc = "start"
    /\ \E r \in Rects, h \in Dims, w \in Dims :
         /\ glyph_rect' = r
         /\ hw' = <<h, w>>
         /\ uv' = normalized(r, h, w)
    /\ pc' = "normalized"
    /\ UNCHANGED outside_normalized

NextNormalized == Normalize

SpecNormalized == Init /\ [][NextNormalized]_vars

\* TextMap::new(): Library::init().unwrap() and an empty map.
TextMapNew ==
    /\ pc = "start"
    /\ \E initialized \in BOOLEAN :
         /\ pc' = (IF initialized THEN "ready" ELSE "panicked")
         /\ panic' = (IF initialized THEN "" ELSE "Library::init().unwrap()")
    /\ fonts' = NoFonts
    /\ UNCHANGED <<last, outside_map>>

\* The whole of self.generate_from_path(font, path, face_index), called
\* directly or by generate (op).
GenerateCall(op, font, path, face_index) ==
    /\ pc = "ready"
    /\ LET r == FontContainerNew(FontFile(path, face_index), overflow_checks)
       IN  /\ fonts' = Registered(fonts, font, r)
           /\ last' = [op |-> op, font |-> font, path |-> path,
                       face_index |-> face_index, ok |-> r.ok, loaded |-> r.loaded,
                       replaced |-> r.ok /\ font \in DOMAIN fonts]
           /\ pc' = (IF r.ok THEN "ready" ELSE "panicked")
           /\ panic' = r.panic
    /\ UNCHANGED outside_map

\* TextMap::generate_from_path(font, path, face_index)
GenerateFromPath ==
    \E font \in FontNames, path \in Paths, face_index \in FaceIndexes :
      GenerateCall("generate_from_path", font, path, face_index)

\* TextMap::generate(font, face_index)
Generate ==
    \E font \in FontNames, face_index \in FaceIndexes :
      GenerateCall("generate", font, FontPath(font), face_index)

\* A program that fills its font registry.
NextMap ==
    \/ TextMapNew
    \/ GenerateFromPath
    \/ Generate

SpecMap == Init /\ [][NextMap]_vars

----------------------------------------------------------------------------
\* Properties of the atlas.  Glyph g (from 1) is character code g - 1.

GlyphIds == 1..COUNT

\* A u32 coordinate holds the integer v.
Holds(word, v) == ~Wrapped(word) /\ word = v

\* C1  Row containment: for every glyph of a built atlas, rect.tl.y >= 0,
\* rect.br.y < atlas.h and rect.br.y - rect.tl.y = descriptor.h - 1, the
\* coordinates read as the unsigned numbers the rect holds.
C1_RowContainment ==
    atlas.ok =>
      \A g \in GlyphIds :
        LET r == atlas.rects[g]
        IN  /\ ~Wrapped(r.tl[2])
            /\ ULess(r.br[2], atlas.h)
            /\ Holds(r.br[2], r.tl[2] + atlas.descriptors[g].h - 1)

\* C2  Contiguous packing: the first glyph starts at column 0 and each next
\* glyph starts pitch bytes (not width pixels) after the one before it.
C2_ContiguousPacking ==
    atlas.ok =>
      /\ Holds(atlas.rects[1].tl[1], 0)
      /\ \A g \in GlyphIds \ {COUNT} :
           Holds(atlas.rects[g + 1].tl[1],
                 atlas.rects[g].tl[1] + atlas.descriptors[g].pitch)

\* C2 witness: an atlas was built in which a glyph with padding (pitch larger
\* than width) is followed by another glyph.
C2_Witness ==
    /\ atlas.ok
    /\ \E g \in GlyphIds \ {COUNT} :
         /\ atlas.descriptors[g].pitch > atlas.descriptors[g].w
         /\ atlas.descriptors[g + 1].w > 0

\* C3  Baseline alignment: every packed glyph has rect.tl.y = max_ascent -
\* bearing_y, max_ascent being the linear store's max_y_max, whatever the
\* sign of bearing_y.
C3_BaselineAlignment ==
    atlas.ok =>
      \A g \in GlyphIds :
        Holds(atlas.rects[g].tl[2],
              linear.max_y_max - atlas.descriptors[g].bearing_y)

\* C3 witness: an atlas was built from glyphs with a negative, a zero and a
\* positive bearing_y.
C3_Witness ==
    /\ atlas.ok
    /\ \E g \in GlyphIds : atlas.descriptors[g].bearing_y < 0
    /\ \E g \in GlyphIds : atlas.descriptors[g].bearing_y = 0
    /\ \E g \in GlyphIds : atlas.descriptors[g].bearing_y > 0

\* Sum of the pitches of the first n glyphs of a glyph sequence.
RECURSIVE SumPitch(_, _)
SumPitch(glyphs, n) ==
    IF n = 0 THEN 0 ELSE SumPitch(glyphs, n - 1) + glyphs[n].pitch

\* C4 (as claimed)  Atlas size: h = max_ascent + max_descent of the linear
\* store and the byte buffer has exactly w * h bytes.
C4_SizeClaimed ==
    atlas.ok =>
      /\ Holds(atlas.h, linear.max_y_max + linear.max_y_min)
      /\ Len(atlas.bytes) = atlas.w * atlas.h

\* C4 (amended)  Atlas size: h = max_ascent + max_descent of the linear store
\* and the byte buffer has exactly stride * h bytes, stride being sum_pitch;
\* that is w * h for the pixel modes of one byte per texel (Gray, Lcd, LcdV).
C4_SizeAmended ==
    atlas.ok =>
      /\ Holds(atlas.h, linear.max_y_max + linear.max_y_min)
      /\ Holds(atlas.stride, linear.sum_pitch)
      /\ Len(atlas.bytes) = atlas.stride * atlas.h
      /\ linear.pixel_mode \in {"Gray", "Lcd", "LcdV"} =>
           Len(atlas.bytes) = atlas.w * atlas.h

\* C4 witness: a Bgra atlas with pixels and glyphs above and below the
\* baseline was built.
C4_Witness ==
    /\ atlas.ok
    /\ linear.pixel_mode = "Bgra"
    /\ linear.max_y_max > 0
    /\ linear.max_y_min > 0
    /\ Len(atlas.bytes) > 0

\* C5  Atlas width: for every pixel mode computing atlas.w does not fail and
\* atlas.w * bytes_per_texel is the sum of the pitches of all glyphs.
C5_WidthInvariant ==
    /\ panic # "fit_w / (get_size() / 8)"
    /\ atlas.ok =>
         atlas.w * (get_size(linear.pixel_mode) \div 8) = SumPitch(face.glyphs, COUNT)

\* The face of the end-to-end scenario: A, B, space (and space for every
\* further character code), rendered gray.
ScenarioFace ==
    [pixel_mode |-> "Gray",
     glyphs |-> [g \in GlyphIds |->
                   Glyph(IF g = 1 THEN ShapeA ELSE IF g = 2 THEN ShapeB ELSE ShapeSpace,
                         "Gray")]]

\* C6  Rect formula: every glyph's rect is tl = (x, y), br = (x + w - 1,
\* y + h - 1) with x the sum of the pitches of the earlier glyphs and
\* y = max_ascent - bearing_y; and the scenario face builds with
\* max_ascent 8, max_descent 2, height 10, width 14 and the rects
\* {(0,0),(7,9)}, {(8,2),(13,7)}, {(14,8),(13,7)}.
C6_RectFormula ==
    /\ atlas.ok =>
         \A g \in GlyphIds :
           LET d == atlas.descriptors[g]
               x == SumPitch(face.glyphs, g - 1)
               y == linear.max_y_max - d.bearing_y
               r == atlas.rects[g]
           IN  /\ Holds(r.tl[1], x)
               /\ Holds(r.tl[2], y)
               /\ Holds(r.br[1], x + d.w - 1)
               /\ Holds(r.br[2], y + d.h - 1)
    /\ face = ScenarioFace => pc # "panicked"
    /\ (face = ScenarioFace /\ atlas.ok) =>
         /\ linear.max_y_max = 8
         /\ linear.max_y_min = 2
         /\ atlas.h = 10
         /\ atlas.w = 14
         /\ atlas.rects[1] = GlyphRect(<<0, 0>>, <<7, 9>>)
         /\ atlas.rects[2] = GlyphRect(<<8, 2>>, <<13, 7>>)
         /\ \A g \in GlyphIds \ {1, 2} : atlas.rects[g] = GlyphRect(<<14, 8>>, <<13, 7>>)

\* The scenario of C6 alone: it holds in both build profiles.
C6_Scenario ==
    /\ face = ScenarioFace => pc # "panicked"
    /\ (face = ScenarioFace /\ atlas.ok) =>
         /\ linear.max_y_max = 8
         /\ linear.max_y_min = 2
         /\ atlas.h = 10
         /\ atlas.w = 14
         /\ atlas.rects[1] = GlyphRect(<<0, 0>>, <<7, 9>>)
         /\ atlas.rects[2] = GlyphRect(<<8, 2>>, <<13, 7>>)
         /\ \A g \in GlyphIds \ {1, 2} : atlas.rects[g] = GlyphRect(<<14, 8>>, <<13, 7>>)

C6_ScenarioReached == face = ScenarioFace /\ atlas.ok /\ overflow_checks

\* Index (from 1) in the atlas buffer of row r, column c (both from 0) of glyph g.
AtlasIndex(g, r, c) ==
    (atlas.rects[g].tl[2] + r) * atlas.stride + atlas.rects[g].tl[1] + c + 1

\* The atlas bytes that hold a byte of some glyph.
CoveredBytes ==
    UNION {{AtlasIndex(g, r, c) : r \in 0..(atlas.descriptors[g].h - 1),
                                  c \in 0..(atlas.descriptors[g].pitch - 1)} :
           g \in GlyphIds}

\* C7  Pixel placement: in a built atlas, byte (r, c) of every glyph's source
\* bitmap is at bytes[(rect.tl.y + r) * stride + rect.tl.x + c], and every
\* byte that no glyph covers is 0.
C7_PixelPlacement ==
    atlas.ok =>
      /\ \A g \in GlyphIds :
           LET d == atlas.descriptors[g]
               b == Buffer(g - 1, face.glyphs[g])
           IN  \A r \in 0..(d.h - 1) : \A c \in 0..(d.pitch - 1) :
                 /\ AtlasIndex(g, r, c) \in 1..Len(atlas.bytes)
                 /\ atlas.bytes[AtlasIndex(g, r, c)] = b[r * d.pitch + c + 1]
      /\ \A k \in (1..Len(atlas.bytes)) \ CoveredBytes : atlas.bytes[k] = 0

\* C7 witness: an atlas was built with two glyphs that have pixels, the
\* second one lower than the first, and with bytes no glyph covers.
C7_Witness ==
    /\ atlas.ok
    /\ \E g \in GlyphIds \ {COUNT} :
         /\ atlas.descriptors[g].h > 0
         /\ atlas.descriptors[g + 1].h > 0
         /\ atlas.rects[g + 1].tl[2] > atlas.rects[g].tl[2]
    /\ (1..Len(atlas.bytes)) \ CoveredBytes # {}

\* Length of the flat buffer after the bitmaps of the first n glyphs of a
\* face were appended.
RECURSIVE BytesAppended(_, _)
BytesAppended(f, n) ==
    IF n = 0 THEN 0 ELSE BytesAppended(f, n - 1) + Len(Buffer(n - 1, f.glyphs[n]))

\* Offsets and lookups of the glyphs of the linear store are exact.
OffsetsExact ==
    \A g \in GlyphIds :
      LET got == get_glyph_texture(linear, g - 1, overflow_checks)
      IN  /\ Holds(linear.descriptors[g].x_start, BytesAppended(face, g - 1))
          /\ got.ok
          /\ got.texture = Buffer(g - 1, face.glyphs[g])

NoNegativePitch == \A g \in GlyphIds : face.glyphs[g].pitch >= 0

\* C8 (as claimed)  Linear store offsets: every glyph's offset is the length
\* of the flat buffer just before its bitmap was appended, and
\* get_glyph_texture(ch) returns the bytes appended for ch, for every ch.
C8_OffsetsClaimed == linear.ok => OffsetsExact

\* C8 (amended)  The same for the faces the store supports, those without a
\* negative pitch.
C8_OffsetsAmended == (linear.ok /\ NoNegativePitch) => OffsetsExact

\* C8 witness: a store was built from a face without negative pitch that has
\* a padded glyph, then an empty glyph, then a glyph with pixels.
C8_Witness ==
    /\ linear.ok
    /\ NoNegativePitch
    /\ \E g \in GlyphIds \ {1, COUNT} :
         /\ linear.descriptors[g - 1].pitch > linear.descriptors[g - 1].w
         /\ linear.descriptors[g].h = 0
         /\ linear.descriptors[g + 1].h > 0

\* The largest value of k(glyph) over the glyphs of a face.
RECURSIVE MaxOver(_, _, _)
MaxOver(k(_), glyphs, n) ==
    IF n = 1 THEN k(glyphs[1]) ELSE Max(MaxOver(k, glyphs, n - 1), k(glyphs[n]))

Ascent(g) == g.bearing_y

Descent(g) == g.h - g.bearing_y

\* C9 (as claimed)  Aggregate statistics: sum_pitch is the sum of the pitches,
\* max_y_max the maximum bearing_y and max_y_min the maximum of h - bearing_y
\* over all glyphs, for every combination of glyph metrics.
C9_StatisticsClaimed ==
    linear.ok =>
      /\ Holds(linear.sum_pitch, SumPitch(face.glyphs, COUNT))
      /\ Holds(linear.max_y_max, MaxOver(Ascent, face.glyphs, COUNT))
      /\ Holds(linear.max_y_min, MaxOver(Descent, face.glyphs, COUNT))

\* C9 (amended)  max_y_max is the larger of 0 and the maximum bearing_y,
\* max_y_min the larger of 0 and the maximum of h - bearing_y, and sum_pitch
\* is the sum of the pitches whenever that sum is not negative.
C9_StatisticsAmended ==
    linear.ok =>
      /\ SumPitch(face.glyphs, COUNT) >= 0 =>
           Holds(linear.sum_pitch, SumPitch(face.glyphs, COUNT))
      /\ Holds(linear.max_y_max, Max(0, MaxOver(Ascent, face.glyphs, COUNT)))
      /\ Holds(linear.max_y_min, Max(0, MaxOver(Descent, face.glyphs, COUNT)))

\* C9 witnesses: a store was built from a face whose glyphs all lie below the
\* baseline, and the statistics are not all 0.
C9_Witness ==
    /\ linear.ok
    /\ MaxOver(Ascent, face.glyphs, COUNT) < 0
    /\ linear.sum_pitch > 0
    /\ linear.max_y_min > 0

----------------------------------------------------------------------------
\* Properties of the screen text mesh.

\* create_screen_text_mesh was called on the atlas with src and coord.
MeshCalled == pc = "mesh" \/ (pc = "panicked" /\ atlas.ok)

\* Every character of the string has a glyph.
InRange(s) == \A k \in 1..Len(s) : s[k] < COUNT

\* C10  Mesh vertex count: for a string of characters that all have glyphs,
\* create_screen_text_mesh returns a mesh of 6 vertices per character, in
\* string order, without an index buffer; the empty string gives no vertex.
C10_VertexCount ==
    (MeshCalled /\ InRange(src)) =>
      /\ mesh.ok
      /\ Len(mesh.vertices) = 6 * Len(src)
      /\ mesh.indices = "None"
      /\ \A k \in 1..Len(src) :
           LET n == normalized(atlas.rects[src[k] + 1], atlas.h, atlas.w)
           IN  /\ mesh.vertices[6 * (k - 1) + 1].tex_coords = n[1]
               /\ mesh.vertices[6 * (k - 1) + 3].tex_coords = n[2]
               /\ mesh.vertices[6 * k].tex_coords = n[1]

\* C10 witness: a mesh was built for a string of MaxStrLen characters that
\* starts with two different characters.
C10_Witness ==
    /\ pc = "mesh"
    /\ Len(src) = MaxStrLen
    /\ src[1] # src[2]
    /\ Len(mesh.vertices) > 6

\* C10 witness of the empty string.
C10_WitnessEmpty == pc = "mesh" /\ src = <<>> /\ mesh.vertices = <<>>

\* The descriptor the atlas holds for the k-th character of the string.
DescOf(k) == atlas.descriptors[src[k] + 1]

\* Sum of (advance >> 6) over the first k characters of the string.
RECURSIVE SumAdvance(_)
SumAdvance(k) ==
    IF k = 0 THEN 0 ELSE SumAdvance(k - 1) + (DescOf(k).advance \div 64)

\* First vertex (from 1) of the quad of the k-th character.
QuadAt(k) == 6 * (k - 1) + 1

\* C11  Pen advance: the pen x starts at the anchor x and moves by
\* (advance >> 6) after each character, so the quad of the k-th character
\* has its left edge at anchor x + the sum of (advance >> 6) of the earlier
\* characters + its bearing_x; the pen y stays at the anchor y, so every
\* quad has its bottom edge at anchor y - (h - bearing_y).
C11_PenAdvance ==
    pc = "mesh" =>
      /\ mesh.x = coord[1] + SumAdvance(Len(src))
      /\ \A k \in 1..Len(src) :
           /\ mesh.vertices[QuadAt(k)].position[1]
                = coord[1] + SumAdvance(k - 1) + DescOf(k).bearing_x
           /\ mesh.vertices[QuadAt(k) + 1].position[2]
                = coord[2] - (DescOf(k).h - DescOf(k).bearing_y)

\* C11 witness: a mesh of two characters away from the origin, the first
\* of which moves the pen by something else than its width.
C11_Witness ==
    /\ pc = "mesh"
    /\ Len(src) = 2
    /\ coord[1] > 0
    /\ DescOf(1).advance \div 64 > DescOf(1).w
    /\ mesh.x > coord[1] + (DescOf(1).advance \div 64)

\* Distance of the left edges of the first two quads.
SecondQuadOffset ==
    mesh.vertices[QuadAt(2)].position[1] - mesh.vertices[QuadAt(1)].position[1]

\* C12 as claimed: in a string of two characters the second quad starts
\* exactly (advance >> 6) of the first character to the right of the first
\* quad, whatever the metrics of the two glyphs.
C12_OffsetClaimed ==
    (pc = "mesh" /\ Len(src) = 2) =>
      SecondQuadOffset = DescOf(1).advance \div 64

\* C12  In a string of two characters the second quad starts
\* (advance >> 6) of the first character + bearing_x of the second -
\* bearing_x of the first to the right of the first quad.
C12_OffsetAmended ==
    (pc = "mesh" /\ Len(src) = 2) =>
      SecondQuadOffset
        = (DescOf(1).advance \div 64) + DescOf(2).bearing_x - DescOf(1).bearing_x

\* C12 witness: a mesh of two characters whose glyphs differ in bearing_x.
C12_Witness ==
    /\ pc = "mesh"
    /\ Len(src) = 2
    /\ DescOf(1).bearing_x # DescOf(2).bearing_x
    /\ DescOf(1).advance >= 64

\* C13  Quad geometry: the quad of each character has its left edge at
\* pen x + bearing_x, its bottom edge at pen y - (h - bearing_y), the width
\* and height of the glyph; its vertices are the triangles (top-left,
\* bottom-left, bottom-right) and (bottom-right, top-right, top-left), and
\* each corner carries the same corner of the normalized rect of the glyph.
C13_QuadGeometry ==
    pc = "mesh" =>
      \A k \in 1..Len(src) :
        LET d      == DescOf(k)
            n      == normalized(atlas.rects[src[k] + 1], atlas.h, atlas.w)
            left   == coord[1] + SumAdvance(k - 1) + d.bearing_x
            bottom == coord[2] - (d.h - d.bearing_y)
            right  == left + d.w
            top    == bottom + d.h
            tl     == [position |-> <<left, top, 0>>,     tex_coords |-> n[1]]
            bl     == [position |-> <<left, bottom, 0>>,  tex_coords |-> <<n[1][1], n[2][2]>>]
            br     == [position |-> <<right, bottom, 0>>, tex_coords |-> n[2]]
            tr     == [position |-> <<right, top, 0>>,    tex_coords |-> <<n[2][1], n[1][2]>>]
        IN  SubSeq(mesh.vertices, QuadAt(k), QuadAt(k) + 5) = <<tl, bl, br, br, tr, tl>>

\* C13 witness: a mesh holds the quad of a glyph that has a width, a height
\* and rows below the baseline, after another character.
C13_Witness ==
    /\ pc = "mesh"
    /\ Len(src) = 2
    /\ DescOf(2).w > 0
    /\ DescOf(2).h > DescOf(2).bearing_y
    /\ DescOf(2).bearing_y > 0
    /\ DescOf(1).advance >= 64

----------------------------------------------------------------------------
\* Properties of the normalized rects.

\* The f32 quotient q lies in [0,1]: its divisor is not 0 (0 / 0 is NaN and
\* x / 0 is infinite) and its dividend does not exceed it.
InUnit(q) ==
    /\ ~Wrapped(q[1])
    /\ ~Wrapped(q[2])
    /\ q[2] > 0
    /\ q[1] <= q[2]

\* Both corners of a normalized rect lie in the unit square.
RectInUnit(n) ==
    /\ InUnit(n[1][1])
    /\ InUnit(n[1][2])
    /\ InUnit(n[2][1])
    /\ InUnit(n[2][2])

\* C14  Normalized range: every rect of an atlas returned by
\* TextAtlas::create, normalized with the h and w of that atlas, has the u
\* and v of both corners in [0,1], for every glyph and every pixel mode.
C14_NormalizedRange ==
    atlas.ok =>
      \A g \in GlyphIds : RectInUnit(normalized(atlas.rects[g], atlas.h, atlas.w))

\* x * y of two finite f32 values whose significands multiply below 2^31.
F32Mul(x, y) == F32Round(x.m * y.m, x.e + y.e, FALSE)

\* The significand of m * 2^e as 24 bits, and the exponent of its last bit.
RECURSIVE Significand(_, _)
Significand(m, e) ==
    IF m = 0 \/ m >= 2^23 THEN [m |-> m, e |-> e] ELSE Significand(2 * m, e - 1)

\* Distance of two finite f32 values, counted in steps of the last bit of
\* the smaller one; 2^24 stands for everything further apart.
UlpsApart(x, y) ==
    LET a == Significand(x.m, x.e)
        b == Significand(y.m, y.e)
    IN  IF a.m = 0 \/ b.m = 0 THEN (IF a.m = b.m THEN 0 ELSE 2^24)
        ELSE IF a.e = b.e THEN Abs(a.m - b.m)
        ELSE IF a.e = b.e + 1 THEN 2 * a.m - b.m
        ELSE IF b.e = a.e + 1 THEN 2 * b.m - a.m
        ELSE 2^24

\* The normalized coordinate q multiplied back by its dimension.
Denormalized(q) == F32Mul(F32Quot(q), AsF32(q[2]))

\* Multiplying back recovers the coordinate within rounding tolerance: the
\* f32 nearest to it, or one at most two steps of the last bit away (the
\* division and the multiplication each round by half a step of their
\* result).
Recovered(q) ==
    /\ F32Quot(q).class = "finite"
    /\ UlpsApart(Denormalized(q), AsF32(q[1])) <= 2

\* C15  Normalization round-trip: for every rect and dimensions h, w > 0,
\* GlyphRect::normalized returns (tl.x / w, tl.y / h) and (br.x / w,
\* br.y / h), and each of the four f32 quotients multiplied by its
\* dimension gives the coordinate back within rounding tolerance.
C15_RoundTrip ==
    (pc = "normalized" /\ hw[1] > 0 /\ hw[2] > 0) =>
      /\ uv = <<<<Quot(glyph_rect.tl[1], hw[2]), Quot(glyph_rect.tl[2], hw[1])>>,
                <<Quot(glyph_rect.br[1], hw[2]), Quot(glyph_rect.br[2], hw[1])>>>>
      /\ \A corner \in 1..2, axis \in 1..2 : Recovered(uv[corner][axis])

\* C15 witness: a rect was normalized with h # w; 31 / 7 multiplied by 7
\* is not 31 but the f32 below it, one coordinate is a word f32 cannot
\* hold (2^24 + 1) and one is a wrapped word.
C15_Witness ==
    /\ pc = "normalized"
    /\ hw = <<11, 7>>
    /\ glyph_rect.tl = <<31, 13>>
    /\ glyph_rect.br = <<-1, 2^24 + 1>>
    /\ UlpsApart(Denormalized(uv[1][1]), AsF32(31)) = 1
    /\ AsF32(glyph_rect.br[2]) = F32Of("finite", 1, 24)

----------------------------------------------------------------------------
\* Properties of the descriptors of the atlas and of the characters of a
\* string.

\* C19  After packing, the x_start of each descriptor of the TextAtlas is
\* the horizontal offset of the glyph in the atlas row:
\* atlas.descriptors[g].x_start == atlas.rects[g].tl.x for every glyph g.
C19_DescriptorXStart ==
    atlas.ok =>
      \A g \in GlyphIds : Holds(atlas.descriptors[g].x_start, atlas.rects[g].tl[1])

\* C20  Out-of-range characters: for a string that holds a character code
\* without a glyph (>= COUNT) create_screen_text_mesh fails on the index at
\* that character and returns no mesh, so no quad of another glyph is ever
\* emitted for it; for a string of character codes below COUNT every
\* lookup is inside the COUNT descriptors and rects of the atlas and a mesh
\* is returned.
C20_OutOfRange ==
    MeshCalled =>
      /\ Len(atlas.descriptors) = COUNT
      /\ Len(atlas.rects) = COUNT
      /\ InRange(src) <=> mesh.ok
      /\ InRange(src) <=> pc = "mesh"
      /\ ~InRange(src) =>
           /\ pc = "panicked"
           /\ panic = "descriptors[ch as usize]"
           /\ mesh.vertices = <<>>

\* C20 witness: the mesh of a string was refused at its second character,
\* the first one having a glyph.
C20_Witness ==
    /\ pc = "panicked"
    /\ atlas.ok
    /\ Len(src) = 2
    /\ src[1] < COUNT
    /\ src[2] >= COUNT
    /\ ~mesh.ok

\* C20 witness of the strings in range: a mesh of two characters.
C20_WitnessInRange == pc = "mesh" /\ Len(src) = 2 /\ Len(mesh.vertices) = 12

----------------------------------------------------------------------------
\* Properties of the font registry.

\* What new_face found for the last call.
LastFile == FontFile(last.path, last.face_index)

\* The characters (from 1) of a face that do not render.
UnrenderableIn(f) == {g \in 1..COUNT : "err" \in DOMAIN f.glyphs[g]}

\* A container holds a linear store and an atlas of all COUNT glyphs.
Complete(c) ==
    /\ c.linear_atlas.ok
    /\ Len(c.linear_atlas.descriptors) = COUNT
    /\ c.atlas.ok
    /\ Len(c.atlas.descriptors) = COUNT
    /\ Len(c.atlas.rects) = COUNT

\* C16  All-or-nothing build: a call of generate or generate_from_path
\* either registers a container whose linear store and atlas cover all
\* COUNT glyphs, or fails as a whole and leaves the registry exactly as it
\* was; when the face cannot be loaded no character is loaded, and when a
\* character cannot be rendered no later character is loaded.
C16_AllOrNothing ==
    [][pc = "ready" =>
         /\ last'.ok =>
              /\ pc' = "ready"
              /\ last'.loaded = COUNT
              /\ last'.font \in DOMAIN fonts'
              /\ Complete(fonts'[last'.font])
              /\ \A n \in DOMAIN fonts \ {last'.font} : fonts'[n] = fonts[n]
         /\ ~last'.ok =>
              /\ pc' = "panicked"
              /\ fonts' = fonts
              /\ LastFile' = Missing => last'.loaded = 0
              /\ (LastFile' # Missing /\ UnrenderableIn(LastFile') # {}) =>
                   \A g \in UnrenderableIn(LastFile') : last'.loaded < g
         /\ \A n \in DOMAIN fonts' : Complete(fonts'[n])]_vars

\* C16 witness: with a font registered, a call failed at a character that
\* does not render, after the characters before it were loaded.
C16_Witness ==
    /\ pc = "panicked"
    /\ last.op = "generate"
    /\ ~last.ok
    /\ panic = "load_char(ch, RENDER).unwrap()"
    /\ last.loaded = 1
    /\ DOMAIN fonts # {}

\* C16 witness of the face that cannot be loaded.
C16_WitnessMissing ==
    /\ pc = "panicked"
    /\ ~last.ok
    /\ panic = "new_face(font_path, face_index).unwrap()"
    /\ DOMAIN fonts # {}

\* C17  Registry never shrinks: no call of generate or generate_from_path,
\* successful or failed, for a new or a registered name, takes a font name
\* out of the registry.
C17_NeverShrinks == [][DOMAIN fonts \subseteq DOMAIN fonts']_vars

\* C17 witness: a registry of two names, the last call having registered
\* a name again.
C17_Witness ==
    /\ pc = "ready"
    /\ last.ok
    /\ last.replaced
    /\ Cardinality(DOMAIN fonts) >= 2

\* C17 witness of a failed call on a registry of two names.
C17_WitnessFailed == pc = "panicked" /\ ~last.ok /\ Cardinality(DOMAIN fonts) >= 2

\* C18  Atlas retention and immutability: once a font name is registered,
\* the atlas stored under it (descriptors, rects, w, h, bytes) stays as it
\* is: no later call, for any name, changes, replaces or removes it.
C18_AtlasRetained ==
    [][\A n \in DOMAIN fonts :
         /\ n \in DOMAIN fonts'
         /\ fonts'[n].atlas = fonts[n].atlas]_vars

----------------------------------------------------------------------------
\* Further properties of the atlas.

\* C21 as claimed: the x start of the glyphs is strictly increasing with
\* the character code: rects[g + 1].tl.x > rects[g].tl.x for every g.
C21_StrictlyIncreasingClaimed ==
    atlas.ok =>
      \A g \in 1..(COUNT - 1) :
        /\ ~Wrapped(atlas.rects[g].tl[1])
        /\ ~Wrapped(atlas.rects[g + 1].tl[1])
        /\ atlas.rects[g + 1].tl[1] > atlas.rects[g].tl[1]

\* C21  The x start of the glyphs never decreases with the character
\* code, and glyph g + 1 starts right of glyph g exactly when glyph g has a
\* pitch above 0: a glyph of pitch 0 shares its column with its successor.
C21_IncreasingAmended ==
    atlas.ok =>
      \A g \in 1..(COUNT - 1) :
        /\ ~Wrapped(atlas.rects[g].tl[1])
        /\ ~Wrapped(atlas.rects[g + 1].tl[1])
        /\ atlas.rects[g + 1].tl[1] >= atlas.rects[g].tl[1]
        /\ atlas.rects[g + 1].tl[1] > atlas.rects[g].tl[1]
             <=> atlas.descriptors[g].pitch > 0

\* C21 witness: an atlas in which a glyph with a pitch is followed by a
\* glyph of pitch 0 and that one by another glyph.
C21_Witness ==
    /\ atlas.ok
    /\ atlas.descriptors[1].pitch > 0
    /\ atlas.descriptors[2].pitch = 0
    /\ atlas.rects[3].tl[1] = atlas.rects[2].tl[1]
    /\ atlas.rects[2].tl[1] > atlas.rects[1].tl[1]

\* The panics of the u32 arithmetic of tl and br (text/mod.rs 186-187).
RectPanics ==
    {"zero as u32 - bearing_y as u32", "tl.0 + w as u32 - 1", "tl.1 + h as u32 - 1"}

\* C26  Rect arithmetic stays in range: for every linear store, the u32
\* arithmetic of top_left and bottom_right in TextAtlas::create neither
\* underflows nor overflows: with overflow checks it does not panic, and
\* without them no coordinate of a rect is a wrapped word.
C26_RectArithmetic ==
    /\ panic \notin RectPanics
    /\ atlas.ok =>
         \A g \in GlyphIds :
           /\ ~Wrapped(atlas.rects[g].tl[1])
           /\ ~Wrapped(atlas.rects[g].tl[2])
           /\ ~Wrapped(atlas.rects[g].br[1])
           /\ ~Wrapped(atlas.rects[g].br[2])

\* The panics of a slice index of the packing step (text/mod.rs 142, 196-201).
IndexPanics ==
    {"get_glyph_texture", "bytes[offset..offset + pitch]",
     "texture[pitch * i..pitch * (i + 1)]"}

\* C27  In-bounds copies: for a linear store built from glyphs without a
\* negative pitch, TextAtlas::create never fails on a slice index, and in
\* the atlas it returns the last row of every glyph ends inside the buffer
\* of h * stride bytes.
C27_InBoundsCopies ==
    (linear.ok /\ NoNegativePitch) =>
      /\ panic \notin IndexPanics
      /\ atlas.ok =>
           /\ Len(atlas.bytes) = atlas.h * atlas.stride
           /\ \A g \in GlyphIds :
                LET d == atlas.descriptors[g]
                    r == atlas.rects[g]
                IN  d.h > 0 =>
                      RowOffset(r.tl[2] + d.h - 1, atlas.stride, r.tl[1]) + d.pitch
                        <= Len(atlas.bytes)

\* C27 witness: an atlas in which the last row of the last glyph ends with
\* the last byte of the buffer, and another glyph has rows of padded bytes.
C27_Witness ==
    /\ atlas.ok
    /\ NoNegativePitch
    /\ LET d == atlas.descriptors[COUNT]
           r == atlas.rects[COUNT]
       IN  /\ d.h > 1
           /\ RowOffset(r.tl[2] + d.h - 1, atlas.stride, r.tl[1]) + d.pitch
                = Len(atlas.bytes)
    /\ \E g \in GlyphIds : atlas.descriptors[g].pitch > atlas.descriptors[g].w

----------------------------------------------------------------------------
\* Input<T> (src/src/input/mod.rs) for T = MouseButton.

Buttons == {"Left", "Right", "Middle"}

\* press with the test of pressed.insert dropped.
press_Always(inp, x) ==
    [inp EXCEPT !.pressed = @ \cup {x}, !.just_pressed = @ \cup {x}]

\* if self.pressed.insert(input) { self.just_pressed.insert(input); }
press(inp, x) ==
    IF x \notin inp.pressed
    THEN [inp EXCEPT !.pressed = @ \cup {x}, !.just_pressed = @ \cup {x}]
    ELSE inp

\* if self.pressed.remove(&input) { self.just_released.insert(input); }
release(inp, x) ==
    IF x \in inp.pressed
    THEN [inp EXCEPT !.pressed = @ \ {x}, !.just_released = @ \cup {x}]
    ELSE inp

\* self.just_released.extend(self.pressed.drain())
release_all(inp) ==
    [inp EXCEPT !.pressed = {}, !.just_released = @ \cup inp.pressed]

\* clear_just_pressed removing from the wrong set.
clear_just_pressed_Released(inp, x) ==
    [inp EXCEPT !.just_released = @ \ {x}]

\* self.just_pressed.remove(&input): the set without x.
clear_just_pressed(inp, x) ==
    [inp EXCEPT !.just_pressed = @ \ {x}]

\* self.just_released.remove(&input)
clear_just_released(inp, x) ==
    [inp EXCEPT !.just_released = @ \ {x}]

\* reset: x leaves the three sets.
reset(inp, x) ==
    [pressed |-> inp.pressed \ {x},
     just_pressed |-> inp.just_pressed \ {x},
     just_released |-> inp.just_released \ {x}]

\* reset_all: the three sets are cleared.
reset_all(inp) ==
    [pressed |-> {}, just_pressed |-> {}, just_released |-> {}]

\* clear that keeps what the last frame left.
clear_Nothing(inp) == inp

\* clear: just_pressed and just_released are cleared.
clear(inp) ==
    [inp EXCEPT !.just_pressed = {}, !.just_released = {}]

\* A call on the Input: what was called, on which input, and the Input it
\* found.
InputCall(op, x, after) ==
    /\ input' = after
    /\ in_call' = [op |-> op, x |-> x, before |-> input]
    /\ UNCHANGED outside_input

Press == \E x \in Buttons : InputCall("press", x, press(input, x))

Release == \E x \in Buttons : InputCall("release", x, release(input, x))

ReleaseAll == InputCall("release_all", "none", release_all(input))

ClearJustPressed ==
    \E x \in Buttons : InputCall("clear_just_pressed", x, clear_just_pressed(input, x))

ClearJustReleased ==
    \E x \in Buttons :
      InputCall("clear_just_released", x, clear_just_released(input, x))

Reset == \E x \in Buttons : InputCall("reset", x, reset(input, x))

ResetAll == InputCall("reset_all", "none", reset_all(input))

Clear == InputCall("clear", "none", clear(input))

\* Any sequence of calls on one Input.
NextInput ==
    \/ Press
    \/ Release
    \/ ReleaseAll
    \/ ClearJustPressed
    \/ ClearJustReleased
    \/ Reset
    \/ ResetAll
    \/ Clear

SpecInput == Init /\ [][NextInput]_vars

\* C22: press(x) of an input that is not pressed adds x to pressed and to
\* just_pressed and leaves just_released alone, press(x) of a pressed input
\* changes none of the three sets; release(x) of a pressed input takes x out
\* of pressed, adds it to just_released and leaves just_pressed alone,
\* release(x) of an input that is not pressed changes nothing.
C22_PressRelease ==
    LET b == in_call.before
        x == in_call.x
    IN  /\ in_call.op = "press" =>
             IF x \in b.pressed
             THEN input = b
             ELSE /\ input.pressed = b.pressed \cup {x}
                  /\ input.just_pressed = b.just_pressed \cup {x}
                  /\ input.just_released = b.just_released
        /\ in_call.op = "release" =>
             IF x \in b.pressed
             THEN /\ input.pressed = b.pressed \ {x}
                  /\ input.just_released = b.just_released \cup {x}
                  /\ input.just_pressed = b.just_pressed
             ELSE input = b

\* A second press of a pressed input whose just_pressed flag was cleared.
C22_Witness ==
    /\ in_call.op = "press"
    /\ in_call.x \in in_call.before.pressed
    /\ in_call.x \notin input.just_pressed
    /\ input.just_released # {}

\* A release of an input that is not pressed, with other inputs pressed.
C22_WitnessRelease ==
    /\ in_call.op = "release"
    /\ in_call.x \notin in_call.before.pressed
    /\ input.pressed # {}
    /\ input = in_call.before

\* x got its just_pressed flag in the last call.
NewlyJustPressed(x) ==
    x \in input.just_pressed /\ x \notin in_call.before.just_pressed

\* x got its just_released flag in the last call.
NewlyJustReleased(x) ==
    x \in input.just_released /\ x \notin in_call.before.just_released

\* The last call released x: release(x) or release_all() while x was pressed.
ReleasedBy(x) ==
    /\ x \in in_call.before.pressed
    /\ \/ in_call.op = "release" /\ in_call.x = x
       \/ in_call.op = "release_all"

\* C23: just_pressed(x) is false right after clear_just_pressed(x) and no
\* call other than a press(x) makes it true, so it stays false until a new
\* press(x), whatever else is called in between; just_released(x) is false
\* right after clear_just_released(x) and only a release of x (release(x) or
\* release_all() while x is pressed) makes it true.
C23_ClearedUntilNew ==
    \A x \in Buttons :
      /\ (in_call.op = "clear_just_pressed" /\ in_call.x = x) =>
           x \notin input.just_pressed
      /\ NewlyJustPressed(x) =>
           in_call.op = "press" /\ in_call.x = x /\ x \notin in_call.before.pressed
      /\ (in_call.op = "clear_just_released" /\ in_call.x = x) =>
           x \notin input.just_released
      /\ NewlyJustReleased(x) => ReleasedBy(x)

\* clear_just_pressed(x) took the flag of an input that stays pressed, and
\* the flags of other inputs are still set.
C23_Witness ==
    /\ in_call.op = "clear_just_pressed"
    /\ in_call.x \in in_call.before.just_pressed
    /\ in_call.x \in input.pressed
    /\ input.just_pressed # {}
    /\ input.just_released # {}

\* release_all() set the flag that clear_just_released(x) had taken.
C23_WitnessReleaseAll ==
    /\ in_call.op = "release_all"
    /\ \E x \in Buttons : NewlyJustReleased(x) /\ x \notin in_call.before.just_pressed

----------------------------------------------------------------------------
\* The mouse buttons of a running app: the event loop sends a
\* MouseButtonInput for every WindowEvent::MouseInput, and every update runs
\* mouse_button_input_system (src/src/input/mouse.rs).

\* Most MouseButtonInput events sent in all.
MaxEvents == 3

\* MouseButtonInput::from_with(button, state)
MouseButtonInput(button, state) == [button |-> button, state |-> state]

\* The loop of mouse_button_input_system over the events evs.
RECURSIVE HandleEvents(_, _)
HandleEvents(inp, evs) ==
    IF evs = <<>>
    THEN inp
    ELSE LET event == Head(evs)
         IN  HandleEvents(IF event.state = "Pressed"
                            THEN press(inp, event.button)
                            ELSE release(inp, event.button),
                          Tail(evs))

\* The events the reader has not read yet.
Unread == SubSeq(events, reader + 1, Len(events))

\* WindowEvent::MouseInput { state, button, .. }
SendMouseInput ==
    /\ Len(events) < MaxEvents
    /\ \E button \in Buttons, state \in {"Pressed", "Released"} :
         events' = Append(events, MouseButtonInput(button, state))
    /\ UNCHANGED <<input, reader, frame, outside_mouse>>

\* One run of mouse_button_input_system.
MouseButtonInputSystem ==
    /\ input' = HandleEvents(clear(input), Unread)
    /\ frame' = Unread
    /\ reader' = Len(events)
    /\ UNCHANGED <<events, outside_mouse>>

NextMouse ==
    \/ SendMouseInput
    \/ MouseButtonInputSystem

SpecMouse == Init /\ [][NextMouse]_vars

\* The buttons that have an event of this state among evs.
ButtonsOf(evs, state) ==
    {evs[i].button : i \in {j \in 1..Len(evs) : evs[j].state = state}}

\* The last event of the button among evs is a press.
LastIsPress(evs, b) ==
    \E i \in 1..Len(evs) :
      /\ evs[i] = MouseButtonInput(b, "Pressed")
      /\ \A j \in (i + 1)..Len(evs) : evs[j].button # b

\* C24: after each run of mouse_button_input_system just_pressed holds only
\* buttons pressed, and just_released only buttons released, by an event read
\* in that run, both are empty after a run that read no event, and pressed
\* holds exactly the buttons whose last event read so far was a press.
C24_PerFrame ==
    /\ input.just_pressed \subseteq ButtonsOf(frame, "Pressed")
    /\ input.just_released \subseteq ButtonsOf(frame, "Released")
    /\ frame = <<>> => input.just_pressed = {} /\ input.just_released = {}
    /\ input.pressed = {b \in Buttons : LastIsPress(SubSeq(events, 1, reader), b)}

\* A run that read a release while a button pressed in an earlier run is
\* still held.
C24_Witness ==
    /\ frame # <<>>
    /\ reader = Len(events)
    /\ input.just_released # {}
    /\ \E b \in input.pressed : b \notin ButtonsOf(frame, "Pressed")

\* A run that read no event while a button is held.
C24_WitnessEmptyRun ==
    /\ frame = <<>>
    /\ reader > 0
    /\ input.pressed # {}

----------------------------------------------------------------------------
\* The legacy asset server (src/src/legacy/asset): an AssetServer is a
\* counted handle on an AssetServerInner, which owns the TaskPool with its
\* executor threads and the lifecycle channel.  A load spawns a task that
\* keeps a clone of the handle until its future is dropped.  All files are
\* readable.

\* Number of executor threads of the pool (num_cpus::get() in the source).
NumThreads == 2

\* Most loads issued in all.
MaxLoads == 2

Threads == 1..NumThreads

Files == {"a.bin", "b.bin"}

\* What self.join_handle.join() does on the thread that the handle is of:
\* pthread_join reports EDEADLK and std panics, or the wait never ends.
SelfJoinOutcomes == {"panicked", "deadlocked"}

\* The main thread, and the handle it holds, next to the executor threads
\* 1..NumThreads and the handles 1..MaxLoads of the tasks.
Main == 0

NoDrop == [by |-> Main, status |-> "none", next |-> 1]

\* lifecycle.create that loses the asset.
create_Lost(channel, asset) == channel

\* lifecycle.create(asset): self.sender.send(asset) on the unbounded channel.
create(channel, asset) == Append(channel, asset)

\* BytesLoader::load of the bytes of the file, for the load number id.
BytesOf(id, path) == [load |-> id, bytes |-> path]

\* TaskPoolInner::drop starts on the thread by: self.shutdown_tx.close(),
\* then the joins in the order of the Vec.
DropBy(by) == [by |-> by, status |-> "joining", next |-> 1]

\* AssetServer::new()
AssetServerNew ==
    /\ ~pool.created
    /\ pool' = [created |-> TRUE,
                handles |-> {Main},
                tasks |-> <<>>,
                threads |-> [t \in Threads |-> [state |-> "idle", task |-> 0]],
                closed |-> FALSE,
                channel |-> <<>>,
                alive |-> TRUE,
                drop |-> NoDrop]
    /\ UNCHANGED outside_pool

\* server.load_bytes(path) on the main thread: the task is spawned with a
\* clone of the handle and detached.
LoadBytes ==
    /\ pool.created
    /\ Main \in pool.handles
    /\ Len(pool.tasks) < MaxLoads
    /\ \E path \in Files :
         pool' = [pool EXCEPT
                    !.tasks = Append(@, [path |-> path, state |-> "queued", sent |-> 0]),
                    !.handles = @ \cup {Len(pool.tasks) + 1}]
    /\ UNCHANGED outside_pool

\* The main thread drops its AssetServer.  The last handle drops the
\* AssetServerInner, and with it the TaskPool, on this thread.
DropServer ==
    /\ pool.created
    /\ Main \in pool.handles
    /\ LET rest == pool.handles \ {Main}
       IN  pool' = IF rest = {}
                   THEN [pool EXCEPT !.handles = rest, !.closed = TRUE,
                                     !.drop = DropBy(Main)]
                   ELSE [pool EXCEPT !.handles = rest]
    /\ UNCHANGED outside_pool

\* ex.run takes a spawned task and polls its future: load_file reads the
\* file.
RunTask(t) ==
    /\ pool.created
    /\ pool.threads[t].state = "idle"
    /\ \E i \in 1..Len(pool.tasks) :
         /\ pool.tasks[i].state = "queued"
         /\ pool' = [pool EXCEPT !.tasks[i].state = "running",
                                 !.threads[t] = [state |-> "busy", task |-> i]]
    /\ UNCHANGED outside_pool

\* The future ends: the asset is loaded and sent, and the future is dropped
\* with its clone of the handle.  The last handle drops the AssetServerInner
\* on this executor thread.
FinishTask(t) ==
    /\ pool.created
    /\ pool.threads[t].state = "busy"
    /\ LET i == pool.threads[t].task
           rest == pool.handles \ {i}
           sent == [pool EXCEPT
                      !.channel = create(@, BytesOf(i, pool.tasks[i].path)),
                      !.tasks[i].sent = @ + (Len(create(pool.channel, BytesOf(i, pool.tasks[i].path))) - Len(pool.channel)),
                      !.tasks[i].state = "done",
                      !.handles = rest]
       IN  pool' = IF rest = {}
                   THEN [sent EXCEPT !.threads[t].state = "dropping",
                                     !.closed = TRUE,
                                     !.drop = DropBy(t)]
                   ELSE [sent EXCEPT !.threads[t] = [state |-> "idle", task |-> 0]]
    /\ UNCHANGED outside_pool

\* shutdown_rx.recv() fails on the closed channel, run returns the error and
\* the thread ends.
ThreadExit(t) ==
    /\ pool.created
    /\ pool.closed
    /\ pool.threads[t].state = "idle"
    /\ pool' = [pool EXCEPT !.threads[t].state = "exited"]
    /\ UNCHANGED outside_pool

\* The next join_handle.join() of TaskPoolInner::drop, and its return after
\* the last.  The rest of the AssetServerInner, the lifecycle channel with
\* it, is dropped when the drop of the pool returns or unwinds.
Join ==
    /\ pool.created
    /\ pool.drop.status = "joining"
    /\ LET n == pool.drop.next
       IN  IF n > NumThreads
           THEN pool' = [pool EXCEPT !.drop.status = "returned",
                                     !.channel = <<>>, !.alive = FALSE]
           ELSE IF n = pool.drop.by
           THEN \E outcome \in SelfJoinOutcomes :
                  pool' = [pool EXCEPT
                             !.drop.status = outcome,
                             !.threads[n].state = outcome,
                             !.channel = IF outcome = "panicked" THEN <<>> ELSE @,
                             !.alive = (outcome # "panicked")]
           ELSE /\ pool.threads[n].state = "exited"
                /\ pool' = [pool EXCEPT !.drop.next = n + 1]
    /\ UNCHANGED outside_pool

NextPool ==
    \/ AssetServerNew
    \/ LoadBytes
    \/ DropServer
    \/ \E t \in Threads : RunTask(t)
    \/ \E t \in Threads : FinishTask(t)
    \/ \E t \in Threads : ThreadExit(t)
    \/ Join

SpecPool == Init /\ [][NextPool]_vars

\* The same with executor threads that are scheduled fairly.
SpecPoolFair ==
    SpecPool /\ WF_vars(\E t \in Threads : RunTask(t) \/ FinishTask(t) \/ ThreadExit(t))

\* C25: the drop of the TaskPool joins every executor thread and returns,
\* whichever thread released the last AssetServer handle: it is never stuck
\* in, or unwound from, one of its joins.
C25_ShutdownTerminates ==
    pool.created => pool.drop.status \notin SelfJoinOutcomes


\* A drop of the pool entered a join of the dropping thread's own handle.
C25_WitnessSelfJoin ==
    /\ pool.created
    /\ pool.drop.status = "joining"
    /\ pool.drop.by \in Threads
    /\ pool.drop.next = pool.drop.by

LoadIds == 1..MaxLoads

\* load_bytes was called for the i-th time.
Issued(i) == pool.created /\ i <= Len(pool.tasks)

\* The i-th load has sent its asset.
Sent(i) == Issued(i) /\ pool.tasks[i].sent = 1

\* The positions of the channel that hold the asset of the i-th load.
InChannel(i) == {k \in 1..Len(pool.channel) : pool.channel[k].load = i}

\* No load has sent more than one asset, a load has sent one exactly when its
\* task has ended, and while the server lives the channel holds the asset of
\* every ended load once, and nothing else.
ExactlyOnce ==
    pool.created =>
      /\ \A i \in 1..Len(pool.tasks) :
           /\ pool.tasks[i].sent = (IF pool.tasks[i].state = "done" THEN 1 ELSE 0)
           /\ pool.alive =>
                /\ Cardinality(InChannel(i)) = pool.tasks[i].sent
                /\ \A k \in InChannel(i) :
                     pool.channel[k] = BytesOf(i, pool.tasks[i].path)
      /\ \A k \in 1..Len(pool.channel) : pool.channel[k].load \in 1..Len(pool.tasks)

\* C28: with fairly scheduled executor threads every load_bytes issued is
\* followed by the sending of its asset, and no asset is sent twice or lost:
\* the channel holds one asset for every load that has ended.
C28_Delivery ==
    /\ []ExactlyOnce
    /\ \A i \in LoadIds : Issued(i) ~> Sent(i)

\* All loads were issued and delivered, and the asset of the second load
\* arrived before the asset of the first.
C28_Witness ==
    /\ pool.created
    /\ pool.alive
    /\ Len(pool.tasks) = MaxLoads
    /\ \A i \in LoadIds : Sent(i)
    /\ Len(pool.channel) = MaxLoads
    /\ pool.channel[1].load = 2

----------------------------------------------------------------------------
\* Window creation (src/src/window): CreateWindow events are turned into
\* windows by handle_create_window, which the winit plugin runs once when it
\* is built and the event loop runs on every MainEventsCleared before
\* app.update().  Events<T> keeps the events of the last two updates in two
\* buffers; Events::update, a system of every update, drops the older one.

\* Most CreateWindow events sent in all.
MaxWindows == 3

\* WindowId::primary()
PRIMARY_ID == 0

\* The ids systems ask windows for.
WindowIds == {PRIMARY_ID, 1, 2}

\* Events::default()
NoEvents == [old |-> <<>>, new |-> <<>>]

\* events.send(event)
send(ev, event) == [ev EXCEPT !.new = Append(@, event)]

\* Events::update(): the older buffer is dropped.
update(ev) == [old |-> ev.new, new |-> <<>>]

\* drain taking the newest event first.
RECURSIVE drain_Reversed(_)
drain_Reversed(ev) ==
    LET all == ev.old \o ev.new
    IN  IF all = <<>>
        THEN <<>>
        ELSE <<all[Len(all)]>>
               \o drain_Reversed([old |-> SubSeq(all, 1, Len(all) - 1), new |-> <<>>])

\* create_events.drain(): every event that is held, oldest first.
drain(ev) == ev.old \o ev.new

\* Window::new(id, desc); a WindowDescriptor has no fields.
Window(id) == [id |-> id, command_queue |-> <<>>]

\* The body of the loop of handle_create_window for one event:
\* winit_windows.create_window, windows.add, window_created_events.send.
CreateOne(w, id) ==
    [w EXCEPT
       !.winit_to_lib = [k \in DOMAIN @ \cup {w.next_winit} |->
                           IF k = w.next_winit THEN id ELSE @[k]],
       !.lib_to_winit = [k \in DOMAIN @ \cup {id} |->
                           IF k = id THEN w.next_winit ELSE @[k]],
       !.next_winit = @ + 1,
       !.windows = [k \in DOMAIN @ \cup {id} |-> IF k = id THEN Window(id) ELSE @[k]],
       !.window_created = send(@, id),
       !.created = Append(@, id)]

RECURSIVE CreateAll(_, _, _)
\* The loop over the drained events; the build of window number fail (from
\* 1, 0 for none) fails and builder.build(event_loop).expect panics.
CreateAll(w, ids, fail) ==
    IF ids = <<>>
    THEN w
    ELSE IF fail = 1
    THEN [w EXCEPT !.panicked = TRUE]
    ELSE CreateAll(CreateOne(w, Head(ids)), Tail(ids), IF fail = 0 THEN 0 ELSE fail - 1)

\* handle_create_window(world, event_loop)
handle_create_window(w, fail) ==
    CreateAll([w EXCEPT !.create_events = NoEvents], drain(w.create_events), fail)

RECURSIVE SendAll(_, _)
\* The CreateWindow events ids sent one after the other.
SendAll(w, ids) ==
    IF ids = <<>>
    THEN w
    ELSE SendAll([w EXCEPT !.create_events = send(@, Head(ids)),
                           !.requested = Append(@, Head(ids))],
                 Tail(ids))

\* app.update(): Events::update of both kinds of events in the First stage,
\* then the systems, which send the CreateWindow events ids.
app_update(w, ids) ==
    SendAll([w EXCEPT !.create_events = update(@),
                      !.window_created = update(@),
                      !.updated = TRUE],
            ids)

\* What the systems of one update may ask for.
Requests == {<<>>} \cup {<<i>> : i \in WindowIds}
              \cup {<<i, j>> : i \in WindowIds, j \in WindowIds}

\* FlatWindowPlugin::build and FlatWinitPlugin::build.
PluginBuild ==
    /\ ~win.built
    /\ \E create_primary_window \in BOOLEAN, fail \in 0..1 :
         LET fresh == [built |-> TRUE,
                       panicked |-> FALSE,
                       create_events |-> NoEvents,
                       window_created |-> NoEvents,
                       windows |-> <<>>,
                       winit_to_lib |-> <<>>,
                       lib_to_winit |-> <<>>,
                       next_winit |-> 1,
                       updated |-> FALSE,
                       requested |-> <<>>,
                       created |-> <<>>]
             asked == IF create_primary_window
                      THEN SendAll(fresh, <<PRIMARY_ID>>)
                      ELSE fresh
         IN  win' = handle_create_window(asked, fail)
    /\ UNCHANGED outside_window

\* Event::MainEventsCleared: handle_create_window, then app.update().
MainEventsCleared ==
    /\ win.built
    /\ ~win.panicked
    /\ \E ids \in Requests, fail \in 0..Len(drain(win.create_events)) :
         /\ Len(win.requested) + Len(ids) <= MaxWindows
         /\ LET handled == handle_create_window(win, fail)
            IN  win' = IF handled.panicked THEN handled ELSE app_update(handled, ids)
    /\ UNCHANGED outside_window

NextWindow ==
    \/ PluginBuild
    \/ MainEventsCleared

SpecWindow == Init /\ [][NextWindow]_vars

\* C29: between the handlers of the event loop the WindowCreated events sent
\* so far carry, one for one and in the same order, the ids of the
\* CreateWindow events sent so far, up to the events that are still pending;
\* Windows holds a Window of every id created; and the pending events are
\* those of the last update only, which the next MainEventsCleared turns
\* into windows before it runs the next update.
C29_OneToOneOrdered ==
    (win.built /\ ~win.panicked) =>
      /\ win.requested = win.created \o drain(win.create_events)
      /\ DOMAIN win.windows = {win.created[k] : k \in 1..Len(win.created)}
      /\ \A id \in DOMAIN win.windows : win.windows[id].id = id
      /\ win.create_events.old = <<>>
      /\ LET held == drain(win.window_created)
         IN  held = SubSeq(win.created, Len(win.created) - Len(held) + 1, Len(win.created))

\* Two windows asked for in one update were created by the next
\* MainEventsCleared, in the order asked, after the primary window.
C29_Witness ==
    /\ win.built
    /\ ~win.panicked
    /\ win.updated
    /\ Len(win.created) = MaxWindows
    /\ win.created[1] = PRIMARY_ID
    /\ win.created[2] # win.created[3]
    /\ win.window_created.old = <<win.created[2], win.created[3]>>
    /\ win.create_events = NoEvents

----------------------------------------------------------------------------
\* BatchMesh (src/src/render/mesh/mod.rs) and Indices
\* (src/src/resource/buffer/mod.rs).  A vertex is tagged with the number of
\* the add that brought it and its place in that mesh.

\* Most meshes added to a batch.
MaxMeshes == 2

\* Most vertices of an added mesh.
MaxVertices == 2

\* Most indices of an added mesh.
MaxIndices == 2

\* Indices::U16(vals) and Indices::U32(vals)
Indices(kind, vals) == [kind |-> kind, vals |-> vals]

\* indices: None
NoIndices == Indices("None", <<>>)

\* The index lists of a mesh of n vertices: every index is below n.
IndexLists(n) == UNION {[1..len -> 0..(n - 1)] : len \in 0..MaxIndices}

\* The meshes handed to add: n vertices, and no indices or indices of either
\* kind that point into the mesh.
Meshes ==
    UNION {{[vertices |-> n, indices |-> NoIndices]}
             \cup {[vertices |-> n, indices |-> Indices(kind, vals)] :
                     kind \in {"U16", "U32"}, vals \in IndexLists(n)} :
           n \in 0..MaxVertices}

\* The vertices of the mesh that add number k brings.
VerticesOf(k, n) == [j \in 1..n |-> [mesh |-> k, vertex |-> j - 1]]

\* offset as u16 for U16 indices, offset for U32 indices.
OffsetAs(kind, offset) == IF kind = "U16" THEN offset % 2^16 ELSE offset

\* *ind += offset overflows for one of the indices.
ShiftOverflows(ind, offset) ==
    \E k \in 1..Len(ind.vals) :
      IF ind.kind = "U16"
      THEN ind.vals[k] + OffsetAs("U16", offset) >= 2^16
      ELSE AddOverflows(ind.vals[k], offset)

\* Indices::shift(offset) where no addition overflows or the build wraps.
shift(ind, offset) ==
    [ind EXCEPT !.vals =
       [k \in 1..Len(ind.vals) |->
          IF ind.kind = "U16"
          THEN (ind.vals[k] + OffsetAs("U16", offset)) % 2^16
          ELSE ind.vals[k] + offset]]

\* Indices::extend(other): the values of other, cast to the kind of self.
extend(self, other) ==
    [self EXCEPT !.vals =
       @ \o [k \in 1..Len(other.vals) |->
               IF self.kind = "U16" /\ other.kind = "U32"
               THEN other.vals[k] % 2^16
               ELSE other.vals[k]]]

\* let offset = vertices.len() as u32, for the vertices of the mesh given
\* to add.
OffsetOf(b, m) == m.vertices

\* BatchMesh::add(mesh) on the batch b as add number k, in a build with or
\* without overflow checks.
add(b, m, k, checks) ==
    LET offset == OffsetOf(b, m)
        pushed == [b EXCEPT !.inner_mesh.vertices = @ \o VerticesOf(k, m.vertices),
                            !.added = Append(@, m)]
        mismatch == [ok |-> FALSE, panic |-> "Index requirements does not match",
                     batch |-> pushed]
        overflow == [ok |-> FALSE, panic |-> "*ind += offset", batch |-> pushed]
    IN  IF b.inner_mesh.indices # NoIndices
        THEN IF m.indices = NoIndices THEN mismatch
             ELSE IF checks /\ ShiftOverflows(m.indices, offset) THEN overflow
             ELSE [ok |-> TRUE, panic |-> "",
                   batch |-> [pushed EXCEPT !.inner_mesh.indices =
                                              extend(@, shift(m.indices, offset))]]
        ELSE IF b.indexed /\ m.indices # NoIndices
        THEN IF checks /\ ShiftOverflows(m.indices, offset) THEN overflow
             ELSE [ok |-> TRUE, panic |-> "",
                   batch |-> [pushed EXCEPT !.inner_mesh.indices =
                                              shift(m.indices, offset)]]
        ELSE IF ~b.indexed /\ m.indices = NoIndices
        THEN [ok |-> TRUE, panic |-> "", batch |-> pushed]
        ELSE mismatch

\* BatchMesh::new(primitive_topology, indexed)
BatchMeshNew ==
    /\ ~batch.created
    /\ pc = "start"
    /\ \E indexed \in BOOLEAN :
         batch' = [created |-> TRUE,
                   indexed |-> indexed,
                   inner_mesh |-> [vertices |-> <<>>, indices |-> NoIndices],
                   added |-> <<>>]
    /\ UNCHANGED <<pc, panic, outside_batch>>

\* batch.add(mesh)
BatchMeshAdd ==
    /\ batch.created
    /\ pc = "start"
    /\ Len(batch.added) < MaxMeshes
    /\ \E m \in Meshes :
         LET r == add(batch, m, Len(batch.added) + 1, overflow_checks)
         IN  /\ batch' = r.batch
             /\ pc' = (IF r.ok THEN pc ELSE "panicked")
             /\ panic' = r.panic
    /\ UNCHANGED outside_batch

NextBatch ==
    \/ BatchMeshNew
    \/ BatchMeshAdd

SpecBatch == Init /\ [][NextBatch]_vars

\* The number of indices the adds before add number k brought.
RECURSIVE IndicesBefore(_)
IndicesBefore(k) ==
    IF k <= 1 THEN 0
    ELSE IndicesBefore(k - 1) + Len(batch.added[k - 1].indices.vals)

\* C30: in an indexed batch to which meshes with indices were added, every
\* index stored is smaller than the number of vertices of the batch, and the
\* indices that add number k brought point at vertices that add number k
\* brought.
C30_IndicesValid ==
    (batch.created /\ batch.indexed /\ pc # "panicked" /\ batch.added # <<>>) =>
      LET vs == batch.inner_mesh.vertices
          is == batch.inner_mesh.indices.vals
      IN  /\ \A p \in 1..Len(is) : is[p] >= 0 /\ is[p] < Len(vs)
          /\ \A k \in 1..Len(batch.added) :
               \A p \in (IndicesBefore(k) + 1)..IndicesBefore(k + 1) :
                 /\ is[p] >= 0 /\ is[p] < Len(vs)
                 /\ vs[is[p] + 1].mesh = k

\* A first add alone leaves an index that is not below the vertex count.
C30_WitnessFirstAdd ==
    /\ batch.created
    /\ batch.indexed
    /\ pc # "panicked"
    /\ Len(batch.added) = 1
    /\ \E p \in 1..Len(batch.inner_mesh.indices.vals) :
         batch.inner_mesh.indices.vals[p] >= Len(batch.inner_mesh.vertices)

====
